---- MODULE Spec2Model ----
(***************************************************************************)
(* Verification model of quicky-setup.                                     *)
(*                                                                         *)
(* Part I   the API client that scaffoldApiService generates               *)
(*          (src/src/prompts.ts): api(), refreshToken(), the module-level  *)
(*          hasTriedRefresh flag, for both storage variants.               *)
(* Part II  the orchestrator scaffoldProject (src/unnamed/part_001) and    *)
(*          setupEnvFiles (src/unnamed/part_002) over a small filesystem.  *)
(***************************************************************************)
EXTENDS Integers, Sequences, FiniteSets, TLC

(* ------------------------------ bounds -------------------------------- *)
\* number of api() invocations that may be in progress at once
NumCalls == 2
\* total number of api() invocations in one behaviour
MaxInvocations == 2

Calls == 1..NumCalls

(* --------------------------- Part I: values --------------------------- *)
Languages == {"js", "ts"}
StorageKinds == {"cookie", "localStorage"}
NoToken == "none"
\* a token stored before the first call, and a token issued by a refresh
StoredToken == "token stored at start"
IssuedToken == "token issued by a refresh"

LOGIN == "/login"
AppPage == "/app"

SessionExpired == "Session expired. Please log in again."
UnknownApiError == "Unknown API error"
DefaultError == "Something went wrong. Please check your internet connection or contact support."
ServerMessage == "message sent by the server"

\* bodies of the three kinds of successful responses
RequestData == "data of the original request"
RefreshData == "data of the refresh call"
RetryData == "data of the retried request"

\* error.response.data.message: absent, a string, or a value of another
\* type (a list of validation errors, say)
NoMessage == "undefined"
NonStringMessage == "validation errors sent as an array"

\* typeof, on the values a rejection can carry as its message
TypeOf(v) ==
  IF v = NoMessage THEN "undefined"
  ELSE IF v = NonStringMessage THEN "object" ELSE "string"

\* an axios failure: with a response (status, message of its body) or without
ErrorStatuses == {401, 402, 500}
NetworkFailure == [response |-> FALSE, status |-> 0, message |-> NoMessage]
\* failures whose body has no message or a message string
Failures ==
  {NetworkFailure} \cup
  [response : {TRUE}, status : ErrorStatuses, message : {NoMessage, ServerMessage}]


\* what a successful refresh response carries (response.data.data.*)
RefreshPayloads ==
  [accessToken : {NoToken, IssuedToken}, refreshToken : {NoToken, IssuedToken}]

Pending == [kind |-> "pending", value |-> ""]
Resolved(v) == [kind |-> "resolved", value |-> v]
Rejected(m) == [kind |-> "rejected", value |-> m]

\* what came back for one request or refresh call of an invocation:
\* status 200 is a success, 0 a failure without a response; for a refresh,
\* whose failures are all handled alike, Failed is any failure and NotSent
\* a throw before any call was made
NotSent == -1
Failed == -2
Reply(to, status) == [to |-> to, status |-> status]

\* the arguments of optimisticUpdate and what it does with them, in order
UpdatedFields == "updatedFields"
CurrentFields == "currentFields"
SetLocalData(fields) == [op |-> "setLocalData", arg |-> fields]
Put(fields) == [op |-> "put", arg |-> fields]

\* no optimisticUpdate() around the invocation
NoOptimistic == [pc |-> "none", events |-> <<>>]

\* no request of api() awaiting its answer
NoRequest == [authorization |-> NoToken, withCredentials |-> FALSE]

IdleCall ==
  [pc |-> "idle", requests |-> 0, refreshes |-> 0, replies |-> <<>>,
   result |-> Pending, sent |-> NoRequest]

VARIABLES
  storage,          \* which API-client template was generated
  hasWindow,        \* typeof window / document !== "undefined"
  documentCookie,   \* document.cookie.includes("refreshToken=")
  localStorage,     \* the accessToken and refreshToken entries
  location,         \* window.location.href
  hasTriedRefresh,  \* module-level flag of the generated client
  call,             \* the api() invocations: position and bookkeeping
  invocations,      \* number of api() invocations started so far
  optimistic        \* the optimisticUpdate() call around an invocation, if any

clientVars ==
  <<storage, hasWindow, documentCookie, localStorage, location,
    hasTriedRefresh, call, invocations, optimistic>>

VARIABLES
  answers,     \* the Answers record returned by askQuestions
  pc,          \* position of main / scaffoldProject
  cwd,         \* process.cwd(): "launch" directory or "project" directory
  fs,          \* the project directory: path -> content, for existing paths
  installed,   \* packages installed by the npm install commands
  git,         \* state of the repository made by the git commands
  trace,       \* the orchestrator steps completed, in order
  warned,      \* console.warn of the environment-setup catch was issued
  failedAt,    \* the step whose failure rejected scaffoldProject, or ""
  envLog       \* what each run of setupEnvFiles / each resolution left

scaffVars ==
  <<answers, pc, cwd, fs, installed, git, trace, warned, failedAt, envLog>>

vars == <<clientVars, scaffVars>>

(* --------------------------- Part II: values -------------------------- *)
Frameworks == {"react", "next"}
Routings == {"app", "pages"}
UiLibraries == {"none", "shadcn", "antd"}
\* a prompt that was skipped leaves its field undefined
Undefined == "undefined"

NoAnswers ==
  [projectName |-> Undefined, framework |-> Undefined, language |-> Undefined,
   routing |-> Undefined, redux |-> FALSE, auth |-> FALSE,
   authStorage |-> Undefined, uiLibrary |-> Undefined]

\* the question list of askQuestions: name, static type, offered values
Questions ==
  << [name |-> "projectName", type |-> "text", choices |-> {"my-app"}],
     [name |-> "framework", type |-> "select", choices |-> Frameworks],
     [name |-> "language", type |-> "select", choices |-> Languages],
     [name |-> "routing", type |-> "function", choices |-> Routings],
     [name |-> "redux", type |-> "confirm", choices |-> BOOLEAN],
     [name |-> "auth", type |-> "confirm", choices |-> BOOLEAN],
     [name |-> "authStorage", type |-> "function", choices |-> StorageKinds],
     [name |-> "uiLibrary", type |-> "select", choices |-> UiLibraries] >>

\* the previous answer as prompts hands it to a type function
NoPrev == [none |-> TRUE]
Prev(v, type) == IF type = "confirm" THEN [bool |-> v] ELSE [str |-> v]
Truthy(prev) ==
  IF "bool" \in DOMAIN prev THEN prev.bool
  ELSE IF "str" \in DOMAIN prev THEN prev.str # "" ELSE FALSE

\* variant: the storage question is asked whatever the auth answer was
QuestionType_alwaysAsks(q, prev, values) ==
  IF q.name = "routing"
  THEN IF values.framework = "next" THEN "select" ELSE "null"
  ELSE IF q.name = "authStorage"
  THEN "select"
  ELSE q.type

\* the type of a question, its type function evaluated on (prev, values)
QuestionType(q, prev, values) ==
  IF q.name = "routing"
  THEN IF values.framework = "next" THEN "select" ELSE "null"
  ELSE IF q.name = "authStorage"
  THEN IF Truthy(prev) THEN "select" ELSE "null"
  ELSE q.type

\* prompts(questions) from question i on: a question whose type is null is
\* skipped and leaves no entry, any other is answered with an offered value
RECURSIVE AskFrom(_, _, _)
AskFrom(i, prev, values) ==
  IF i > Len(Questions) THEN {values}
  ELSE LET q == Questions[i]
           type == QuestionType(q, prev, values)
       IN IF type = "null"
          THEN AskFrom(i + 1, prev, values)
          ELSE UNION {AskFrom(i + 1, Prev(v, type), [values EXCEPT ![q.name] = v]) :
                        v \in q.choices}

\* askQuestions: the records a completed prompt sequence can return
CompletedAnswers == AskFrom(1, NoPrev, NoAnswers)

\* prompts(questions) cancelled at a question that is asked: no onCancel is
\* passed, so the loop ends and the answers given so far are returned
RECURSIVE CancelFrom(_, _, _)
CancelFrom(i, prev, values) ==
  IF i > Len(Questions) THEN {}
  ELSE LET q == Questions[i]
           type == QuestionType(q, prev, values)
       IN IF type = "null"
          THEN CancelFrom(i + 1, prev, values)
          ELSE {values} \cup
               UNION {CancelFrom(i + 1, Prev(v, type), [values EXCEPT ![q.name] = v]) :
                        v \in q.choices}

\* paths are sequences of segments below the project directory
Root == <<>>
Dir == [kind |-> "dir"]
Text(t) == [kind |-> "text", text |-> t]
Lines(ls) == [kind |-> "lines", lines |-> ls]

\* `${base}.${ext}`
FileName(base, ext) ==
  CASE base = "apiClient" -> IF ext = "ts" THEN "apiClient.ts" ELSE "apiClient.js"
    [] base = "Routes" -> IF ext = "ts" THEN "Routes.ts" ELSE "Routes.js"
    [] base = "apiEndpoints" -> IF ext = "ts" THEN "apiEndpoints.ts" ELSE "apiEndpoints.js"
    [] base = "vite.config" -> IF ext = "ts" THEN "vite.config.ts" ELSE "vite.config.js"
    [] base = "store" -> IF ext = "ts" THEN "store.ts" ELSE "store.js"
    [] base = "counterSlice" -> IF ext = "ts" THEN "counterSlice.ts" ELSE "counterSlice.js"
    [] base = "counterThunks" -> IF ext = "ts" THEN "counterThunks.ts" ELSE "counterThunks.js"

(* ------------------------ Part II: filesystem ------------------------- *)
\* fs.existsSync
Exists(f, p) == p \in DOMAIN f

\* fs.writeFileSync: creates or overwrites
WriteFile(f, p, content) ==
  [q \in DOMAIN f \cup {p} |-> IF q = p THEN content ELSE f[q]]

Prefixes(p) == {SubSeq(p, 1, n) : n \in 0..Len(p)}

\* fs.mkdirSync(p, { recursive: true }): p and its missing ancestors
MkdirRecursive(f, p) ==
  [q \in DOMAIN f \cup Prefixes(p) |-> IF q \in DOMAIN f THEN f[q] ELSE Dir]

\* variant: an existing folder is removed with its content and made anew
CreateFolder_recreates(f, folder) ==
  LET kept == {q \in DOMAIN f :
                 ~(Len(folder) <= Len(q) /\ SubSeq(q, 1, Len(folder)) = folder)}
  IN [q \in kept \cup Prefixes(folder) |-> IF q \in kept THEN f[q] ELSE Dir]

\* createFolder: no-op on anything that exists
CreateFolder(f, folder) ==
  IF ~Exists(f, folder) THEN MkdirRecursive(f, folder) ELSE f

\* variant: the next plan also has a pages folder
Folders_withPages(framework) ==
  <<  <<"public">>  >> \o
  ( IF framework = "next"
    THEN << <<"components">>, <<"hooks">>, <<"lib">>, <<"pages">>, <<"styles">>,
            <<"types">>, <<"services">> >>
    ELSE IF framework = "react"
    THEN << <<"src", "components">>, <<"src", "hooks">>, <<"src", "layouts">>,
            <<"src", "services">>, <<"src", "styles">>, <<"src", "utils">>,
            <<"src", "pages">>, <<"src", "routes">> >>
    ELSE << <<"src", "components">>, <<"src", "hooks">>, <<"src", "layouts">>,
            <<"src", "services">>, <<"src", "styles">>, <<"src", "utils">> >> )

\* the folders array of createFolders, each entry as path.join splits it
Folders(framework) ==
  <<  <<"public">>  >> \o
  ( IF framework = "next"
    THEN << <<"components">>, <<"hooks">>, <<"lib">>, <<"styles">>,
            <<"types">>, <<"services">> >>
    ELSE IF framework = "react"
    THEN << <<"src", "components">>, <<"src", "hooks">>, <<"src", "layouts">>,
            <<"src", "services">>, <<"src", "styles">>, <<"src", "utils">>,
            <<"src", "pages">>, <<"src", "routes">> >>
    ELSE << <<"src", "components">>, <<"src", "hooks">>, <<"src", "layouts">>,
            <<"src", "services">>, <<"src", "styles">>, <<"src", "utils">> >> )

RECURSIVE CreateEach(_, _)
CreateEach(f, folders) ==
  IF folders = <<>> THEN f
  ELSE CreateEach(CreateFolder(f, Head(folders)), Tail(folders))

\* createFolders: folders.forEach(createFolder)
CreateFolders(f, framework) == CreateEach(f, Folders(framework))

(* ----------------------- Part I: template choice ---------------------- *)
\* the IIFE of scaffoldApiService: which client template is produced
ApiClientTemplate(language, authStorage) ==
  IF language = "ts"
  THEN IF authStorage = "localStorage" THEN "localStorage"
       ELSE IF authStorage = "cookie" THEN "cookie" ELSE "none"
  ELSE IF authStorage = "localStorage" THEN "localStorage"
       ELSE IF authStorage = "cookie" THEN "cookie" ELSE "none"

(* ------------------- Part I: helpers of the template ------------------ *)
GetStoredAuthToken == IF hasWindow THEN localStorage.accessToken ELSE NoToken

GetRefreshToken == IF hasWindow THEN localStorage.refreshToken ELSE NoToken

StoreAuthToken(ls, token) ==
  IF hasWindow THEN [ls EXCEPT !.accessToken = token] ELSE ls

StoreRefreshToken(ls, token) ==
  IF hasWindow THEN [ls EXCEPT !.refreshToken = token] ELSE ls

RemoveTokens(ls) ==
  IF hasWindow
  THEN [ls EXCEPT !.accessToken = NoToken, !.refreshToken = NoToken]
  ELSE ls

\* the axios request of api(), first or retried: in the localStorage
\* templates the Authorization header is built from the token read just
\* before (absent when there is none); with credentials in every template
\* (withCredentials: true, or axios.defaults.withCredentials = true)
Request ==
  [authorization |-> IF storage = "localStorage" THEN GetStoredAuthToken
                     ELSE NoToken,
   withCredentials |-> TRUE]

\* hasRefreshToken (cookie templates), hasRefreshTokenCookie (localStorage
\* templates): both look at document.cookie
HasRefreshToken == IF ~hasWindow THEN FALSE ELSE documentCookie

\* window.location.href = SystemRoutes.LOGIN, guarded by typeof window
RedirectToLogin(loc) == IF hasWindow THEN LOGIN ELSE loc

\* error?.response?.data?.message ?? "Unknown API error"
ErrorMessage(failure) ==
  IF failure.message = NoMessage THEN UnknownApiError ELSE failure.message

InProgress(c) == call[c].pc \notin {"idle", "done"}

\* the scaffolder is not part of the behaviours of the client
ScaffoldOff ==
  /\ answers = NoAnswers
  /\ pc = "off"
  /\ cwd = "launch"
  /\ fs = <<>>
  /\ installed = {}
  /\ git = "none"
  /\ trace = <<>>
  /\ warned = FALSE
  /\ failedAt = ""
  /\ envLog = <<>>

\* no generated client runs in the behaviours of the scaffolder
ClientOff ==
  /\ storage = "none"
  /\ hasWindow = FALSE
  /\ documentCookie = FALSE
  /\ localStorage = [accessToken |-> NoToken, refreshToken |-> NoToken]
  /\ location = AppPage
  /\ hasTriedRefresh = FALSE
  /\ call = [c \in Calls |-> IdleCall]
  /\ invocations = 0
  /\ optimistic = [c \in Calls |-> NoOptimistic]

(* ---------------------------- Part I: Init ---------------------------- *)
InitClient ==
  /\ ScaffoldOff
  /\ storage \in {ApiClientTemplate(l, s) : l \in Languages, s \in StorageKinds}
  /\ hasWindow \in BOOLEAN
  /\ documentCookie \in BOOLEAN
  /\ localStorage \in [accessToken : {NoToken, StoredToken},
                       refreshToken : {NoToken, StoredToken}]
  /\ location = AppPage
  /\ hasTriedRefresh = FALSE
  /\ call = [c \in Calls |-> IdleCall]
  /\ invocations = 0
  /\ optimistic = [c \in Calls |-> NoOptimistic]

(* --------------------------- Part I: actions -------------------------- *)
\* api(): the first request is sent
ApiStart(c) ==
  /\ call[c].pc \in {"idle", "done"}
  /\ invocations < MaxInvocations
  /\ invocations' = invocations + 1
  /\ call' = [call EXCEPT ![c] =
                [IdleCall EXCEPT !.pc = "awaitRequest", !.requests = 1,
                                 !.sent = Request]]
  /\ optimistic[c].pc # "awaitApi"
  /\ optimistic' = [optimistic EXCEPT ![c] = NoOptimistic]
  /\ UNCHANGED <<storage, hasWindow, documentCookie, localStorage, location,
                 hasTriedRefresh>>
  /\ UNCHANGED scaffVars

\* the first request succeeds
RequestResolved(c) ==
  /\ call[c].pc = "awaitRequest"
  /\ hasTriedRefresh' = FALSE
  /\ call' = [call EXCEPT ![c].pc = "done",
                          ![c].replies = Append(@, Reply("request", 200)),
                          ![c].result = Resolved(RequestData),
                          ![c].sent = NoRequest]
  /\ UNCHANGED <<storage, hasWindow, documentCookie, localStorage, location,
                 invocations>>
  /\ UNCHANGED optimistic
  /\ UNCHANGED scaffVars

\* refreshToken() up to its first await, entered from the 401 branch
RefreshTokenBegin(c) ==
  IF storage = "localStorage" /\ GetRefreshToken = NoToken
  THEN \* "No refresh token found": caught inside refreshToken, rethrown
       /\ localStorage' = RemoveTokens(localStorage)
       /\ location' = RedirectToLogin(location)
       /\ call' = [call EXCEPT
                    ![c].pc = "refreshRejected",
                    ![c].replies = @ \o <<Reply("request", 401),
                                          Reply("refresh", NotSent)>>,
                    ![c].sent = NoRequest]
  ELSE /\ call' = [call EXCEPT
                    ![c].pc = "awaitRefresh",
                    ![c].replies = Append(@, Reply("request", 401)),
                    ![c].refreshes = @ + 1,
                    ![c].sent = NoRequest]
       /\ UNCHANGED <<localStorage, location>>

\* the first request fails: the catch branch of api()
RequestRejected(c, failure) ==
  /\ call[c].pc = "awaitRequest"
  /\ IF failure.response
     THEN IF failure.status = 401 /\ ~hasTriedRefresh /\ HasRefreshToken
          THEN /\ hasTriedRefresh' = TRUE
               /\ RefreshTokenBegin(c)
          ELSE /\ call' = [call EXCEPT
                            ![c].pc = "done",
                            ![c].replies = Append(@, Reply("request", failure.status)),
                            ![c].result = Rejected(ErrorMessage(failure)),
                            ![c].sent = NoRequest]
               /\ UNCHANGED <<hasTriedRefresh, localStorage, location>>
     ELSE /\ call' = [call EXCEPT
                       ![c].pc = "done",
                       ![c].replies = Append(@, Reply("request", failure.status)),
                       ![c].result = Rejected(DefaultError),
                       ![c].sent = NoRequest]
          /\ UNCHANGED <<hasTriedRefresh, localStorage, location>>
  /\ UNCHANGED <<storage, hasWindow, documentCookie, invocations>>
  /\ UNCHANGED optimistic
  /\ UNCHANGED scaffVars

\* the refresh call succeeds: the rest of refreshToken()
RefreshResolved(c, payload) ==
  /\ call[c].pc = "awaitRefresh"
  /\ localStorage' =
       IF storage = "localStorage"
       THEN LET a == IF payload.accessToken # NoToken
                     THEN StoreAuthToken(localStorage, payload.accessToken)
                     ELSE localStorage
            IN IF payload.refreshToken # NoToken
               THEN StoreRefreshToken(a, payload.refreshToken)
               ELSE a
       ELSE localStorage
  /\ call' = [call EXCEPT ![c].pc = "refreshResolved",
                          ![c].replies = Append(@, Reply("refresh", 200))]
  /\ UNCHANGED <<storage, hasWindow, documentCookie, location,
                 hasTriedRefresh, invocations>>
  /\ UNCHANGED optimistic
  /\ UNCHANGED scaffVars

\* the refresh call fails: the catch branch of refreshToken()
RefreshRejected(c) ==
  /\ call[c].pc = "awaitRefresh"
  /\ IF storage = "localStorage"
     THEN /\ localStorage' = RemoveTokens(localStorage)
          /\ location' = RedirectToLogin(location)
     ELSE UNCHANGED <<localStorage, location>>
  /\ call' = [call EXCEPT
               ![c].pc = "refreshRejected",
               ![c].replies = Append(@, Reply("refresh", Failed))]
  /\ UNCHANGED <<storage, hasWindow, documentCookie, hasTriedRefresh,
                 invocations>>
  /\ UNCHANGED optimistic
  /\ UNCHANGED scaffVars

\* variant: the retry is sent without reading the stored token again
RetrySend_noToken(c) ==
  /\ call[c].pc = "refreshResolved"
  /\ call' = [call EXCEPT ![c].pc = "awaitRetry", ![c].requests = @ + 1,
                          ![c].sent = [Request EXCEPT !.authorization = NoToken]]
  /\ UNCHANGED <<storage, hasWindow, documentCookie, localStorage, location,
                 hasTriedRefresh, invocations>>
  /\ UNCHANGED optimistic
  /\ UNCHANGED scaffVars

\* api() resumes after await refreshToken() and sends the retry, with the
\* token read again (retryToken)
RetrySend(c) ==
  /\ call[c].pc = "refreshResolved"
  /\ call' = [call EXCEPT ![c].pc = "awaitRetry", ![c].requests = @ + 1,
                          ![c].sent = Request]
  /\ UNCHANGED <<storage, hasWindow, documentCookie, localStorage, location,
                 hasTriedRefresh, invocations>>
  /\ UNCHANGED optimistic
  /\ UNCHANGED scaffVars

\* variant: the catch branch forgets the redirect
SessionExpiredCatch_noRedirect(c, replies) ==
  /\ hasTriedRefresh' = FALSE
  /\ location' = location
  /\ call' = [call EXCEPT ![c].pc = "done",
                          ![c].replies = replies,
                          ![c].result = Rejected(SessionExpired),
                          ![c].sent = NoRequest]

\* catch (refreshError) of api(): common to a failed refresh and a failed retry
SessionExpiredCatch(c, replies) ==
  /\ hasTriedRefresh' = FALSE
  /\ location' = RedirectToLogin(location)
  /\ call' = [call EXCEPT ![c].pc = "done",
                          ![c].replies = replies,
                          ![c].result = Rejected(SessionExpired),
                          ![c].sent = NoRequest]

\* variant: the flag is not reset when the refresh failed
RefreshCatch_keepsFlag(c) ==
  /\ call[c].pc = "refreshRejected"
  /\ location' = RedirectToLogin(location)
  /\ call' = [call EXCEPT ![c].pc = "done",
                          ![c].result = Rejected(SessionExpired),
                          ![c].sent = NoRequest]
  /\ UNCHANGED <<storage, hasWindow, documentCookie, localStorage,
                 hasTriedRefresh, invocations>>
  /\ UNCHANGED optimistic
  /\ UNCHANGED scaffVars

\* api() resumes after await refreshToken() rejected
RefreshCatch(c) ==
  /\ call[c].pc = "refreshRejected"
  /\ SessionExpiredCatch(c, call[c].replies)
  /\ UNCHANGED <<storage, hasWindow, documentCookie, localStorage,
                 invocations>>
  /\ UNCHANGED optimistic
  /\ UNCHANGED scaffVars

\* variant: the flag is not reset after a successful retry
RetryResolved_keepsFlag(c) ==
  /\ call[c].pc = "awaitRetry"
  /\ call' = [call EXCEPT ![c].pc = "done",
                          ![c].replies = Append(@, Reply("request", 200)),
                          ![c].result = Resolved(RetryData),
                          ![c].sent = NoRequest]
  /\ UNCHANGED <<storage, hasWindow, documentCookie, localStorage, location,
                 hasTriedRefresh, invocations>>
  /\ UNCHANGED optimistic
  /\ UNCHANGED scaffVars

\* the retried request succeeds
RetryResolved(c) ==
  /\ call[c].pc = "awaitRetry"
  /\ hasTriedRefresh' = FALSE
  /\ call' = [call EXCEPT ![c].pc = "done",
                          ![c].replies = Append(@, Reply("request", 200)),
                          ![c].result = Resolved(RetryData),
                          ![c].sent = NoRequest]
  /\ UNCHANGED <<storage, hasWindow, documentCookie, localStorage, location,
                 invocations>>
  /\ UNCHANGED optimistic
  /\ UNCHANGED scaffVars

\* variant: a 401 on the retry starts another refresh
RetryRejected_refreshesAgain(c, failure) ==
  /\ call[c].pc = "awaitRetry"
  /\ IF failure.status = 401
     THEN /\ call' = [call EXCEPT
                       ![c].pc = "awaitRefresh",
                       ![c].replies = Append(@, Reply("request", 401)),
                       ![c].refreshes = @ + 1,
                    ![c].sent = NoRequest]
          /\ UNCHANGED <<hasTriedRefresh, location>>
     ELSE SessionExpiredCatch(c, Append(call[c].replies,
                                        Reply("request", failure.status)))
  /\ UNCHANGED <<storage, hasWindow, documentCookie, localStorage,
                 invocations>>
  /\ UNCHANGED optimistic
  /\ UNCHANGED scaffVars

\* the retried request fails, with any failure
RetryRejected(c, failure) ==
  /\ call[c].pc = "awaitRetry"
  /\ SessionExpiredCatch(c, Append(call[c].replies,
                                   Reply("request", failure.status)))
  /\ UNCHANGED <<storage, hasWindow, documentCookie, localStorage,
                 invocations>>
  /\ UNCHANGED optimistic
  /\ UNCHANGED scaffVars

\* one step of call c, its failures drawn from the set failures
CallStepOn(c, failures) ==
  \/ RequestResolved(c)
  \/ \E failure \in failures : RequestRejected(c, failure)
  \/ \E payload \in RefreshPayloads : RefreshResolved(c, payload)
  \/ RefreshRejected(c)
  \/ RetrySend(c)
  \/ RefreshCatch(c)
  \/ RetryResolved(c)
  \/ \E failure \in failures : RetryRejected(c, failure)

CallStep(c) == CallStepOn(c, Failures)

NextClient ==
  \E c \in Calls : ApiStart(c) \/ CallStep(c)

SpecClient == InitClient /\ [][NextClient]_vars

\* every request and every refresh call is eventually answered or fails
FairSpecClient == SpecClient /\ \A c \in Calls : WF_vars(CallStep(c))

(* ------------- Part I: server messages of any type ------------------- *)
\* the calls with failures whose message is absent, a string or another value
SpecMessages ==
  /\ InitClient
  /\ [][\E c \in Calls :
          \/ ApiStart(c)
          \/ CallStepOn(c, {NetworkFailure} \cup
                           [response : {TRUE}, status : ErrorStatuses,
                            message : {NoMessage, ServerMessage, NonStringMessage}])]_vars

(* ------------- Part I: one more invocation than MaxInvocations -------- *)
\* api(): the first request is sent, of up to MaxInvocations + 1 invocations
ApiStartRace(c) ==
  /\ call[c].pc \in {"idle", "done"}
  /\ invocations < MaxInvocations + 1
  /\ invocations' = invocations + 1
  /\ call' = [call EXCEPT ![c] =
                [IdleCall EXCEPT !.pc = "awaitRequest", !.requests = 1,
                                 !.sent = Request]]
  /\ UNCHANGED <<storage, hasWindow, documentCookie, localStorage, location,
                 hasTriedRefresh, optimistic>>
  /\ UNCHANGED scaffVars

SpecRace ==
  InitClient /\ [][\E c \in Calls : ApiStartRace(c) \/ CallStep(c)]_vars

(* ----------------------- Part I: optimisticUpdate -------------------- *)
\* optimisticUpdate() up to its await: setLocalData(updatedFields), then
\* api("put", url, { data: updatedFields }) sends its first request
OptimisticStart(c) ==
  /\ call[c].pc \in {"idle", "done"}
  /\ optimistic[c].pc # "awaitApi"
  /\ invocations < MaxInvocations
  /\ invocations' = invocations + 1
  /\ optimistic' = [optimistic EXCEPT ![c] =
                      [pc |-> "awaitApi",
                       events |-> <<SetLocalData(UpdatedFields), Put(UpdatedFields)>>]]
  /\ call' = [call EXCEPT ![c] =
                [IdleCall EXCEPT !.pc = "awaitRequest", !.requests = 1,
                                 !.sent = Request]]
  /\ UNCHANGED <<storage, hasWindow, documentCookie, localStorage, location,
                 hasTriedRefresh>>
  /\ UNCHANGED scaffVars

\* variant: the catch block logs the error and leaves the local state
OptimisticSettle_noRollback(c) ==
  /\ optimistic[c].pc = "awaitApi"
  /\ call[c].pc = "done"
  /\ optimistic' = [optimistic EXCEPT ![c].pc = "returned"]
  /\ UNCHANGED <<storage, hasWindow, documentCookie, localStorage, location,
                 hasTriedRefresh, call, invocations>>
  /\ UNCHANGED scaffVars

\* optimisticUpdate() resumes after await api(...): nothing more when it
\* resolved, catch { setLocalData(currentFields) } when it rejected
OptimisticSettle(c) ==
  /\ optimistic[c].pc = "awaitApi"
  /\ call[c].pc = "done"
  /\ optimistic' =
       IF call[c].result.kind = "rejected"
       THEN [optimistic EXCEPT ![c].pc = "returned",
                               ![c].events = Append(@, SetLocalData(CurrentFields))]
       ELSE [optimistic EXCEPT ![c].pc = "returned"]
  /\ UNCHANGED <<storage, hasWindow, documentCookie, localStorage, location,
                 hasTriedRefresh, call, invocations>>
  /\ UNCHANGED scaffVars

NextOptimistic ==
  \E c \in Calls :
    \/ ApiStart(c)
    \/ CallStep(c)
    \/ OptimisticStart(c)
    \/ OptimisticSettle(c)

SpecOptimistic == InitClient /\ [][NextOptimistic]_vars

(* =================== Part II: the scaffolder's pieces ================== *)
\* { ...a, ...b }: the keys of both, b's value where both have the key
Spread(a, b) ==
  [k \in DOMAIN a \cup DOMAIN b |-> IF k \in DOMAIN b THEN b[k] ELSE a[k]]

EmptyObject == <<>>

nextVersion == "14.2.3"

\* the dependencies object of scaffoldProject
PinnedDependencies ==
  ("next" :> "^14.2.3") @@ ("react" :> "^18.2.0") @@ ("react-dom" :> "^18.2.0")

PinnedDevDependencies ==
  ("@types/node" :> "^20.11.0") @@ ("@types/react" :> "^18.2.0") @@
  ("@types/react-dom" :> "^18.2.0") @@ ("autoprefixer" :> "^10.4.0") @@
  ("eslint" :> "^8.0.0") @@ ("eslint-config-next" :> "^14.2.3") @@
  ("postcss" :> "^8.0.0") @@ ("tailwindcss" :> "^3.4.0") @@
  ("typescript" :> "^5.0.0")

PinnedScripts ==
  ("dev" :> "next dev --turbo") @@ ("build" :> "next build") @@
  ("start" :> "next start") @@ ("lint" :> "next lint") @@
  ("dev:turbo" :> "next dev --turbo")

\* a parsed package.json: its object-valued sections and its other fields
Manifest(other, sections) ==
  [kind |-> "manifest", other |-> other, sections |-> sections]

Section(m, name) ==
  IF name \in DOMAIN m.sections THEN m.sections[name] ELSE EmptyObject

\* variant: the three sections are replaced by the pinned entries
MergeManifest_replaces(m) ==
  [m EXCEPT !.sections =
     [n \in DOMAIN m.sections \cup {"dependencies", "devDependencies", "scripts"} |->
        CASE n = "dependencies" -> PinnedDependencies
          [] n = "devDependencies" -> PinnedDevDependencies
          [] n = "scripts" -> PinnedScripts
          [] OTHER -> m.sections[n]]]

\* the package.json rewrite of the next branch
MergeManifest(m) ==
  [m EXCEPT !.sections =
     [n \in DOMAIN m.sections \cup {"dependencies", "devDependencies", "scripts"} |->
        CASE n = "dependencies" -> Spread(Section(m, n), PinnedDependencies)
          [] n = "devDependencies" -> Spread(Section(m, n), PinnedDevDependencies)
          [] n = "scripts" -> Spread(Section(m, n), PinnedScripts)
          [] OTHER -> m.sections[n]]]

\* manifests the base-project generators may leave behind
NextManifest ==
  Manifest(("name" :> "my-app") @@ ("private" :> "true"),
           ("dependencies" :>
              (("next" :> "14.2.3") @@ ("react" :> "^18") @@ ("react-dom" :> "^18"))) @@
           ("devDependencies" :>
              (("eslint" :> "^8") @@ ("eslint-config-next" :> "14.2.3") @@
               ("@types/jest" :> "^29"))) @@
           ("scripts" :>
              (("dev" :> "next dev") @@ ("build" :> "next build") @@
               ("test" :> "jest"))))

BareManifest ==
  Manifest(("name" :> "my-app"),
           ("dependencies" :> (("next" :> "14.2.3") @@ ("swr" :> "^2"))) @@
           ("engines" :> ("node" :> ">=18")))

ViteManifest ==
  Manifest(("name" :> "my-app") @@ ("type" :> "module"),
           ("dependencies" :> (("react" :> "^18.2.0") @@ ("react-dom" :> "^18.2.0"))) @@
           ("devDependencies" :> (("vite" :> "^5.2.0") @@ ("eslint" :> "^8.57.0"))) @@
           ("scripts" :> (("dev" :> "vite") @@ ("build" :> "vite build"))))

NextGitignore == Lines(<<"node_modules", ".env*.local">>)
ViteGitignore == Lines(<<"node_modules", "*.local">>)

PackageJsonPath == <<"package.json">>
GitignorePath == <<".gitignore">>
EnvPath == <<".env">>
EnvExamplePath == <<".env.example">>
JsConfigPath == <<"jsconfig.json">>
ReadmePath == <<"README.md">>
TailwindConfigPath == <<"tailwind.config.js">>
CssPath == <<"src", "index.css">>
ViteConfigPath(language) ==
  <<FileName("vite.config", IF language = "ts" THEN "ts" ELSE "js")>>

\* nothing, or the file at path with one of the contents
Maybe(path, contents) == {<<>>} \cup {path :> c : c \in contents}

Overlay(f, g) ==
  [q \in DOMAIN f \cup DOMAIN g |-> IF q \in DOMAIN g THEN g[q] ELSE f[q]]

\* what create-next-app / create-vite may write into the project directory
GeneratorOutputs(framework, language) ==
  IF framework = "next"
  THEN {Overlay(Overlay(m, g), j) :
          m \in Maybe(PackageJsonPath, {NextManifest, BareManifest}),
          g \in Maybe(GitignorePath, {NextGitignore}),
          j \in Maybe(JsConfigPath, {Text("jsconfig of the generator")})}
  ELSE {Overlay(Overlay(m, g), v) :
          m \in Maybe(PackageJsonPath, {ViteManifest}),
          g \in Maybe(GitignorePath, {ViteGitignore}),
          v \in Maybe(ViteConfigPath(language), {Text("vite config of the generator")})}

(* --------------------------- setupEnvFiles ---------------------------- *)
\* generateRandomString(32): the values two calls can differ by
Secrets == {"secret-1", "secret-2"}

apiVar(framework) ==
  IF framework = "next" THEN "NEXT_PUBLIC_API_URL" ELSE "VITE_API_URL"
socketVar(framework) ==
  IF framework = "next" THEN "NEXT_PUBLIC_SOCKET_URL" ELSE "VITE_SOCKET_URL"
authSecretVar(framework) ==
  IF framework = "next" THEN "NEXTAUTH_SECRET" ELSE "VITE_AUTH_SECRET"

\* variant: the random string also ends up in the socket URL
envContent_randomUrl(framework, secret) ==
  [kind |-> "env",
   lines |-> << <<apiVar(framework), "http://localhost:3000/api">>,
                <<socketVar(framework), secret>>,
                <<authSecretVar(framework), secret>>,
                <<"NODE_ENV", "development">> >>]

envContent(framework, secret) ==
  [kind |-> "env",
   lines |-> << <<apiVar(framework), "http://localhost:3000/api">>,
                <<socketVar(framework), "http://localhost:3000">>,
                <<authSecretVar(framework), secret>>,
                <<"NODE_ENV", "development">> >>]

\* an .env the user already had
UserEnv == [kind |-> "env", lines |-> << <<"API_KEY", "secret of the user">> >>]

\* the lines of the vocabulary that contain the substring ".env"
LinesWithDotEnv == {".env", ".env.local", ".env.*.local", ".env*.local"}

\* gitignoreContent.includes('.env')
IncludesDotEnv(lines) == \E i \in 1..Len(lines) : lines[i] \in LinesWithDotEnv

EnvIgnoreLines ==
  <<"# Environment variables", ".env", ".env.local", ".env.*.local">>

\* where a filesystem call of setupEnvFiles may throw
EnvFaults == {"none", "writeEnv", "gitignore"}

\* variant: .env is written whether or not it exists
setupEnvFiles_overwrites(f, framework, secret, fault) ==
  LET f1 == WriteFile(f, EnvPath, envContent(framework, secret))
      gitignoreContent ==
        IF Exists(f1, GitignorePath) THEN f1[GitignorePath].lines ELSE <<>>
      appends == ~IncludesDotEnv(gitignoreContent)
      f2 == IF appends
            THEN WriteFile(f1, GitignorePath,
                           Lines(gitignoreContent \o EnvIgnoreLines))
            ELSE f1
  IN IF fault = "writeEnv"
     THEN [fs |-> f, threw |-> TRUE]
     ELSE IF fault = "gitignore" /\ (Exists(f1, GitignorePath) \/ appends)
     THEN [fs |-> f1, threw |-> TRUE]
     ELSE [fs |-> f2, threw |-> FALSE]

\* setupEnvFiles: the filesystem it leaves and whether it threw
setupEnvFiles(f, framework, secret, fault) ==
  LET writesEnv == ~Exists(f, EnvPath)
      f1 == IF writesEnv
            THEN WriteFile(f, EnvPath, envContent(framework, secret))
            ELSE f
      gitignoreContent ==
        IF Exists(f1, GitignorePath) THEN f1[GitignorePath].lines ELSE <<>>
      appends == ~IncludesDotEnv(gitignoreContent)
      f2 == IF appends
            THEN WriteFile(f1, GitignorePath,
                           Lines(gitignoreContent \o EnvIgnoreLines))
            ELSE f1
  IN IF fault = "writeEnv" /\ writesEnv
     THEN [fs |-> f, threw |-> TRUE]
     ELSE IF fault = "gitignore" /\ (Exists(f1, GitignorePath) \/ appends)
     THEN [fs |-> f1, threw |-> TRUE]
     ELSE [fs |-> f2, threw |-> FALSE]

(* ------------------------- scaffoldApiService ------------------------- *)
envVar(framework) ==
  IF framework = "next" THEN "NEXT_PUBLIC_API_URL" ELSE "VITE_API_URL"

servicesDir(framework) ==
  IF framework = "next" THEN <<"lib">> ELSE <<"src", "lib">>

\* the template text, by what distinguishes one variant from another
apiClientContent(language, authStorage, framework) ==
  [kind |-> "apiClient",
   language |-> IF language = "ts" THEN "ts" ELSE "js",
   storage |-> ApiClientTemplate(language, authStorage),
   baseUrlVar |-> envVar(framework),
   refreshUrlVar |-> IF ApiClientTemplate(language, authStorage) = "localStorage"
                     THEN "NEXT_PUBLIC_API_URL" ELSE "none"]

routesContent(language) ==
  IF language = "ts" THEN Text("SystemRoutes ts") ELSE Text("SystemRoutes js")

apiEndpointsContent(language) ==
  IF language = "ts" THEN Text("API_ENDPOINTS ts") ELSE Text("API_ENDPOINTS js")

scaffoldApiService(f, language, authStorage, framework) ==
  LET ext == IF language = "ts" THEN "ts" ELSE "js"
      dir == servicesDir(framework)
      f1 == IF ~Exists(f, dir) THEN MkdirRecursive(f, dir) ELSE f
      f2 == IF authStorage \in {"localStorage", "cookie"}
               /\ ApiClientTemplate(language, authStorage) # "none"
            THEN WriteFile(f1, dir \o <<FileName("apiClient", ext)>>,
                           apiClientContent(language, authStorage, framework))
            ELSE f1
      f3 == WriteFile(f2, dir \o <<FileName("Routes", ext)>>,
                      routesContent(language))
  IN WriteFile(f3, dir \o <<FileName("apiEndpoints", ext)>>,
               apiEndpointsContent(language))

(* ------------------------- scaffoldReduxStore ------------------------- *)
storeDir(framework) ==
  IF framework = "next" THEN <<"store">> ELSE <<"src", "store">>

\* the store, counter slice and thunks files scaffoldReduxStore writes
ReduxTemplatePaths(language, framework) ==
  LET ext == IF language = "ts" THEN "ts" ELSE "js"
  IN {storeDir(framework) \o <<FileName("store", ext)>>,
      storeDir(framework) \o <<"features", "counter", FileName("counterSlice", ext)>>,
      storeDir(framework) \o <<"features", "counter", FileName("counterThunks", ext)>>}

(* ==================== Part II: main and scaffoldProject =============== *)
InitScaffold ==
  /\ ClientOff
  /\ answers = NoAnswers
  /\ pc = "prompt"
  /\ cwd = "launch"
  /\ fs \in {<<>>, Root :> Dir}
  /\ installed = {}
  /\ git = "none"
  /\ trace = <<>>
  /\ warned = FALSE
  /\ failedAt = ""
  /\ envLog = <<>>

\* a step throws or its command exits non-zero: scaffoldProject rejects
Abort(step) ==
  /\ pc' = "failed"
  /\ failedAt' = step

\* main: await askQuestions()
AskQuestions ==
  /\ pc = "prompt"
  /\ answers' \in CompletedAnswers
  /\ pc' = "root"
  /\ UNCHANGED <<cwd, fs, installed, git, trace, warned, failedAt, envLog>>
  /\ UNCHANGED clientVars

\* createFolder(projectPath); process.chdir(projectPath)
CreateRoot ==
  /\ pc = "root"
  /\ \/ /\ answers.projectName # Undefined  \* else path.resolve throws
        /\ fs' = CreateFolder(fs, Root)
        /\ cwd' = "project"
        /\ pc' = "generator"
        /\ trace' = Append(trace, "root")
        /\ UNCHANGED failedAt
     \/ /\ answers.projectName = Undefined  \* path.resolve throws
        /\ Abort("root")
        /\ UNCHANGED <<fs, cwd, trace>>
     \/ /\ answers.projectName # Undefined
        /\ ~Exists(fs, Root)          \* mkdirSync throws
        /\ Abort("root")
        /\ UNCHANGED <<fs, cwd, trace>>
     \/ /\ answers.projectName # Undefined
        /\ fs' = CreateFolder(fs, Root)  \* process.chdir throws
        /\ Abort("root")
        /\ UNCHANGED <<cwd, trace>>
  /\ UNCHANGED <<answers, installed, git, warned, envLog>>
  /\ UNCHANGED clientVars

\* npx create-next-app / npx create-vite
RunGenerator ==
  /\ pc = "generator"
  /\ \E out \in GeneratorOutputs(answers.framework, answers.language) :
       \/ /\ fs' = Overlay(fs, out)
          /\ pc' = "postprocess"
          /\ trace' = Append(trace, "generator")
          /\ UNCHANGED failedAt
       \/ /\ fs' \in {fs, Overlay(fs, out)}
          /\ Abort("generator")
          /\ UNCHANGED trace
  /\ UNCHANGED <<answers, cwd, installed, git, warned, envLog>>
  /\ UNCHANGED clientVars

\* next branch: merge the pinned entries into package.json, if it is there
MergePackageJson ==
  /\ pc = "postprocess"
  /\ answers.framework = "next"
  /\ fs' = IF Exists(fs, PackageJsonPath)
           THEN WriteFile(fs, PackageJsonPath, MergeManifest(fs[PackageJsonPath]))
           ELSE fs
  /\ pc' = "folders"
  /\ trace' = Append(trace, "postprocess")
  /\ UNCHANGED <<answers, cwd, installed, git, warned, failedAt, envLog>>
  /\ UNCHANGED clientVars

\* else branch: npm install react-router-dom
InstallRouter ==
  /\ pc = "postprocess"
  /\ answers.framework # "next"
  /\ \/ /\ installed' = installed \cup {"react-router-dom"}
        /\ pc' = "tailwind"
        /\ UNCHANGED failedAt
     \/ /\ Abort("postprocess")
        /\ UNCHANGED installed
  /\ UNCHANGED <<answers, cwd, fs, git, trace, warned, envLog>>
  /\ UNCHANGED clientVars

\* npm install -D tailwindcss postcss autoprefixer, then tailwind.config.js
\* and src/index.css are written
InstallTailwind ==
  /\ pc = "tailwind"
  /\ \/ /\ installed' = installed \cup {"tailwindcss", "postcss", "autoprefixer"}
        /\ fs' = LET f1 == WriteFile(fs, TailwindConfigPath,
                                     IF answers.language = "ts"
                                     THEN Text("tailwind config, typed")
                                     ELSE Text("tailwind config"))
                     f2 == IF ~Exists(f1, <<"src">>)
                           THEN MkdirRecursive(f1, <<"src">>) ELSE f1
                 IN WriteFile(f2, CssPath, Text("@import tailwindcss"))
        /\ pc' = "vitePlugin"
        /\ UNCHANGED failedAt
     \/ /\ Abort("postprocess")
        /\ UNCHANGED <<installed, fs>>
  /\ UNCHANGED <<answers, cwd, git, trace, warned, envLog>>
  /\ UNCHANGED clientVars

\* npm install -D @tailwindcss/vite, then the vite config is rewritten
InstallVitePlugin ==
  /\ pc = "vitePlugin"
  /\ \/ /\ installed' = installed \cup {"@tailwindcss/vite"}
        /\ fs' = IF Exists(fs, ViteConfigPath(answers.language))
                 THEN WriteFile(fs, ViteConfigPath(answers.language),
                                Text("vite config with tailwindcss()"))
                 ELSE fs
        /\ pc' = "folders"
        /\ trace' = Append(trace, "postprocess")
        /\ UNCHANGED failedAt
     \/ /\ Abort("postprocess")
        /\ UNCHANGED <<installed, fs, trace>>
  /\ UNCHANGED <<answers, cwd, git, warned, envLog>>
  /\ UNCHANGED clientVars

\* createFolders(projectPath, answers.framework), first time
CreateLayout ==
  /\ pc = "folders"
  /\ fs' = CreateFolders(fs, answers.framework)
  /\ pc' = "env"
  /\ trace' = Append(trace, "folders")
  /\ UNCHANGED <<answers, cwd, installed, git, warned, failedAt, envLog>>
  /\ UNCHANGED clientVars

\* variant: a failure of the environment setup rejects scaffoldProject
SetupEnvironment_propagates ==
  /\ pc = "env"
  /\ \E secret \in Secrets, fault \in EnvFaults \cup {"import"} :
       LET r == IF fault = "import"
                THEN [fs |-> fs, threw |-> TRUE]
                ELSE setupEnvFiles(fs, answers.framework, secret, fault)
       IN /\ fs' = r.fs
          /\ IF r.threw
             THEN /\ Abort("env")
                  /\ UNCHANGED trace
             ELSE /\ pc' = "jsconfig"
                  /\ trace' = Append(trace, "env")
                  /\ UNCHANGED failedAt
  /\ UNCHANGED <<answers, cwd, installed, git, warned, envLog>>
  /\ UNCHANGED clientVars

\* try { import env-setup; await setupEnvFiles(...) } catch { console.warn }
SetupEnvironment ==
  /\ pc = "env"
  /\ \E secret \in Secrets, fault \in EnvFaults \cup {"import"} :
       LET r == IF fault = "import"
                THEN [fs |-> fs, threw |-> TRUE]
                ELSE setupEnvFiles(fs, answers.framework, secret, fault)
       IN /\ fs' = r.fs
          /\ warned' = r.threw
  /\ pc' = "jsconfig"
  /\ trace' = Append(trace, "env")
  /\ UNCHANGED <<answers, cwd, installed, git, failedAt, envLog>>
  /\ UNCHANGED clientVars

\* variant: the auth block is entered whatever answers.auth is
AfterJsConfig_alwaysAuth == "auth"

\* what follows the jsconfig rewrite: the auth block, the UI block or neither
AfterJsConfig ==
  IF answers.auth THEN "auth"
  ELSE IF answers.uiLibrary \in {"shadcn", "antd"} THEN "ui" ELSE "foldersAgain"

\* jsconfig.json is rewritten if it exists
RewriteJsConfig ==
  /\ pc = "jsconfig"
  /\ fs' = IF Exists(fs, JsConfigPath)
           THEN WriteFile(fs, JsConfigPath, Text("jsconfig with @/* alias"))
           ELSE fs
  /\ pc' = AfterJsConfig
  /\ trace' = Append(trace, "jsconfig")
  /\ UNCHANGED <<answers, cwd, installed, git, warned, failedAt, envLog>>
  /\ UNCHANGED clientVars

\* variant: a failing npm install of the auth block does not stop the run
SetupAuth_continues ==
  /\ pc = "auth"
  /\ \/ /\ installed' = installed \cup {"axios", "js-cookie"}
        /\ UNCHANGED failedAt
     \/ /\ failedAt' = "auth"
        /\ UNCHANGED installed
  /\ fs' = scaffoldApiService(fs, answers.language, answers.authStorage,
                              answers.framework)
  /\ pc' = IF answers.uiLibrary \in {"shadcn", "antd"}
           THEN "ui" ELSE "foldersAgain"
  /\ trace' = Append(trace, "auth")
  /\ UNCHANGED <<answers, cwd, git, warned, envLog>>
  /\ UNCHANGED clientVars

\* if (answers.auth): npm install axios js-cookie, then scaffoldApiService
SetupAuth ==
  /\ pc = "auth"
  /\ \/ /\ installed' = installed \cup {"axios", "js-cookie"}
        /\ fs' = scaffoldApiService(fs, answers.language, answers.authStorage,
                                    answers.framework)
        /\ pc' = IF answers.uiLibrary \in {"shadcn", "antd"}
                 THEN "ui" ELSE "foldersAgain"
        /\ trace' = Append(trace, "auth")
        /\ UNCHANGED failedAt
     \/ /\ Abort("auth")
        /\ UNCHANGED <<installed, fs, trace>>
  /\ UNCHANGED <<answers, cwd, git, warned, envLog>>
  /\ UNCHANGED clientVars

UiPackages(uiLibrary) ==
  IF uiLibrary = "shadcn"
  THEN {"lucide-react", "class-variance-authority", "tailwind-merge", "clsx"}
  ELSE IF uiLibrary = "antd" THEN {"antd"} ELSE {}

\* variant: the install of the UI library goes straight to the README
InstallUiLibrary_skipsFolders ==
  /\ pc = "ui"
  /\ \/ /\ installed' = installed \cup UiPackages(answers.uiLibrary)
        /\ pc' = "readme"
        /\ trace' = Append(trace, "ui")
        /\ UNCHANGED failedAt
     \/ /\ Abort("ui")
        /\ UNCHANGED <<installed, trace>>
  /\ UNCHANGED <<answers, cwd, fs, git, warned, envLog>>
  /\ UNCHANGED clientVars

\* variant: the shadcn block also leaves a components.json in the project
InstallUiLibrary_writesConfig ==
  /\ pc = "ui"
  /\ \/ /\ installed' = installed \cup UiPackages(answers.uiLibrary)
        /\ fs' = IF answers.uiLibrary = "shadcn"
                 THEN WriteFile(fs, Root \o <<"components.json">>,
                                Text("shadcn components"))
                 ELSE fs
        /\ pc' = "foldersAgain"
        /\ trace' = Append(trace, "ui")
        /\ UNCHANGED failedAt
     \/ /\ Abort("ui")
        /\ UNCHANGED <<installed, trace, fs>>
  /\ UNCHANGED <<answers, cwd, git, warned, envLog>>
  /\ UNCHANGED clientVars

\* the shadcn and antd blocks: npm install of the library's packages
InstallUiLibrary ==
  /\ pc = "ui"
  /\ \/ /\ installed' = installed \cup UiPackages(answers.uiLibrary)
        /\ pc' = "foldersAgain"
        /\ trace' = Append(trace, "ui")
        /\ UNCHANGED failedAt
     \/ /\ Abort("ui")
        /\ UNCHANGED <<installed, trace>>
  /\ UNCHANGED <<answers, cwd, fs, git, warned, envLog>>
  /\ UNCHANGED clientVars

\* createFolders(projectPath, answers.framework), second time
CreateLayoutAgain ==
  /\ pc = "foldersAgain"
  /\ fs' = CreateFolders(fs, answers.framework)
  /\ pc' = "readme"
  /\ trace' = Append(trace, "foldersAgain")
  /\ UNCHANGED <<answers, cwd, installed, git, warned, failedAt, envLog>>
  /\ UNCHANGED clientVars

WriteReadme ==
  /\ pc = "readme"
  /\ fs' = WriteFile(fs, ReadmePath, Text("README of quicky-setup"))
  /\ pc' = "gitInit"
  /\ trace' = Append(trace, "readme")
  /\ UNCHANGED <<answers, cwd, installed, git, warned, failedAt, envLog>>
  /\ UNCHANGED clientVars

GitInit ==
  /\ pc = "gitInit"
  /\ \/ /\ git' = "initialized"
        /\ pc' = "gitAdd"
        /\ trace' = Append(trace, "gitInit")
        /\ UNCHANGED failedAt
     \/ /\ Abort("gitInit")
        /\ UNCHANGED <<git, trace>>
  /\ UNCHANGED <<answers, cwd, fs, installed, warned, envLog>>
  /\ UNCHANGED clientVars

GitAdd ==
  /\ pc = "gitAdd"
  /\ \/ /\ git' = "staged"
        /\ pc' = "gitCommit"
        /\ trace' = Append(trace, "gitAdd")
        /\ UNCHANGED failedAt
     \/ /\ Abort("gitAdd")
        /\ UNCHANGED <<git, trace>>
  /\ UNCHANGED <<answers, cwd, fs, installed, warned, envLog>>
  /\ UNCHANGED clientVars

GitCommit ==
  /\ pc = "gitCommit"
  /\ \/ /\ git' = "committed"
        /\ pc' = "done"
        /\ trace' = Append(trace, "gitCommit")
        /\ UNCHANGED failedAt
     \/ /\ Abort("gitCommit")
        /\ UNCHANGED <<git, trace>>
  /\ UNCHANGED <<answers, cwd, fs, installed, warned, envLog>>
  /\ UNCHANGED clientVars

NextScaffold ==
  \/ AskQuestions
  \/ CreateRoot
  \/ RunGenerator
  \/ MergePackageJson
  \/ InstallRouter
  \/ InstallTailwind
  \/ InstallVitePlugin
  \/ CreateLayout
  \/ SetupEnvironment
  \/ RewriteJsConfig
  \/ SetupAuth
  \/ InstallUiLibrary
  \/ CreateLayoutAgain
  \/ WriteReadme
  \/ GitInit
  \/ GitAdd
  \/ GitCommit

SpecScaffold == InitScaffold /\ [][NextScaffold]_vars

(* ============== Part II: the prompts may be cancelled ================= *)
\* main: await askQuestions(), the user cancels before the last answer
AskQuestionsCancelled ==
  /\ pc = "prompt"
  /\ answers' \in CancelFrom(1, NoPrev, NoAnswers)
  /\ pc' = "root"
  /\ UNCHANGED <<cwd, fs, installed, git, trace, warned, failedAt, envLog>>
  /\ UNCHANGED clientVars

SpecCancel == InitScaffold /\ [][AskQuestionsCancelled \/ NextScaffold]_vars

(* ========== Part II: a write of scaffoldApiService may throw ========== *)
\* scaffoldApiService when mkdirSync or one of its writeFileSync calls
\* throws: what is on disk is what the calls before the failing one left
scaffoldApiServiceThrows(f, language, authStorage, framework) ==
  LET ext == IF language = "ts" THEN "ts" ELSE "js"
      dir == servicesDir(framework)
      f1 == IF ~Exists(f, dir) THEN MkdirRecursive(f, dir) ELSE f
      f2 == IF authStorage \in {"localStorage", "cookie"}
               /\ ApiClientTemplate(language, authStorage) # "none"
            THEN WriteFile(f1, dir \o <<FileName("apiClient", ext)>>,
                           apiClientContent(language, authStorage, framework))
            ELSE f1
      f3 == WriteFile(f2, dir \o <<FileName("Routes", ext)>>,
                      routesContent(language))
  IN {f, f1, f2, f3}

\* the rejection of the promise scaffoldApiService returned, to which
\* nothing is attached
UnhandledRejection == "unhandled rejection of scaffoldApiService"

\* if (answers.auth) with a throwing write: scaffoldApiService is async and
\* called without await, so the throw rejects a promise nobody holds and
\* scaffoldProject goes on
SetupAuthWriteThrows ==
  /\ pc = "auth"
  /\ installed' = installed \cup {"axios", "js-cookie"}
  /\ fs' \in scaffoldApiServiceThrows(fs, answers.language, answers.authStorage,
                                      answers.framework)
  /\ failedAt' = UnhandledRejection
  /\ pc' = IF answers.uiLibrary \in {"shadcn", "antd"}
           THEN "ui" ELSE "foldersAgain"
  /\ trace' = Append(trace, "auth")
  /\ UNCHANGED <<answers, cwd, git, warned, envLog>>
  /\ UNCHANGED clientVars

\* the runtime ends the process on the unhandled rejection once scaffoldProject
\* is suspended at its next await, the command of that await already started
\* (runtimes that only warn let the run go on)
ExitOnUnhandledRejection ==
  /\ failedAt = UnhandledRejection
  /\ \/ /\ pc = "ui"
        /\ installed' \in {installed, installed \cup UiPackages(answers.uiLibrary)}
        /\ UNCHANGED git
     \/ /\ pc = "gitInit"
        /\ git' \in {git, "initialized"}
        /\ UNCHANGED installed
  /\ pc' = "failed"
  /\ UNCHANGED <<answers, cwd, fs, trace, warned, failedAt, envLog>>
  /\ UNCHANGED clientVars

SpecAuthFault ==
  /\ InitScaffold
  /\ [][SetupAuthWriteThrows \/ ExitOnUnhandledRejection \/ NextScaffold]_vars

(* ========= Part II: scaffoldProject run twice in one environment ====== *)
InitPair ==
  /\ ClientOff
  /\ answers = NoAnswers
  /\ pc = "prompt"
  /\ cwd = "launch"
  /\ fs = <<>>
  /\ installed = {}
  /\ git = "none"
  /\ trace = <<>>
  /\ warned = FALSE
  /\ failedAt = ""
  \* what the environment does in both runs: the files the generator
  \* leaves, the random string, where the environment setup fails
  /\ envLog \in {<<e>> : e \in
       [out : UNION {GeneratorOutputs(fw, l) : fw \in Frameworks, l \in Languages},
        secret : Secrets,
        fault : EnvFaults \cup {"import"}]}

\* the step is one the environment envLog[1] allows, and no command fails
ObeysEnvironment ==
  /\ pc' # "failed"
  /\ pc = "generator" => fs' = Overlay(fs, envLog[1].out)
  /\ pc = "env"
     => LET r == IF envLog[1].fault = "import"
                 THEN [fs |-> fs, threw |-> TRUE]
                 ELSE setupEnvFiles(fs, answers.framework, envLog[1].secret,
                                    envLog[1].fault)
        IN fs' = r.fs /\ warned' = r.threw

\* the tool is started again in the launch directory, for another project
\* directory, with answers that differ in uiLibrary only; envLog keeps what
\* the first run left
RunAgain ==
  /\ pc = "done"
  /\ Len(envLog) = 1
  /\ envLog' = Append(envLog, [fs |-> fs, installed |-> installed,
                               uiLibrary |-> answers.uiLibrary])
  /\ \E u \in UiLibraries \ {answers.uiLibrary} :
       answers' = [answers EXCEPT !.uiLibrary = u]
  /\ pc' = "root"
  /\ cwd' = "launch"
  /\ fs' = <<>>
  /\ installed' = {}
  /\ git' = "none"
  /\ trace' = <<>>
  /\ warned' = FALSE
  /\ UNCHANGED failedAt
  /\ UNCHANGED clientVars

SpecPair ==
  InitPair /\ [][(NextScaffold /\ ObeysEnvironment) \/ RunAgain]_vars

(* ================= Part II: setupEnvFiles run repeatedly ============== *)
\* number of runs of setupEnvFiles on one project directory
MaxEnvRuns == 3

\* .gitignore files a project may have before setupEnvFiles runs
GitignoresBefore ==
  {Lines(<<>>), Lines(<<"node_modules">>), NextGitignore, ViteGitignore,
   Lines(<<"node_modules", ".env">>)}

InitEnv ==
  /\ ClientOff
  /\ answers \in {[NoAnswers EXCEPT !.framework = fw] : fw \in Frameworks}
  /\ pc = "envOnly"
  /\ cwd = "launch"
  /\ fs \in {Overlay(Overlay(Root :> Dir, e), g) :
               e \in Maybe(EnvPath, {UserEnv}),
               g \in Maybe(GitignorePath, GitignoresBefore)}
  /\ installed = {}
  /\ git = "none"
  /\ trace = <<>>
  /\ warned = FALSE
  /\ failedAt = ""
  /\ envLog = <<>>

\* the .env file of f, if any
EnvOf(f) == [q \in DOMAIN f \cap {EnvPath} |-> f[q]]

\* one call of setupEnvFiles({ framework, projectPath })
RunSetupEnvFiles ==
  /\ pc = "envOnly"
  /\ Len(envLog) < MaxEnvRuns
  /\ \E secret \in Secrets, fault \in EnvFaults :
       LET r == setupEnvFiles(fs, answers.framework, secret, fault)
       IN /\ fs' = r.fs
          /\ envLog' = Append(envLog, EnvOf(r.fs))
  /\ UNCHANGED <<answers, pc, cwd, installed, git, trace, warned, failedAt>>
  /\ UNCHANGED clientVars

NextEnv == RunSetupEnvFiles

SpecEnv == InitEnv /\ [][NextEnv]_vars

(* ============== Part II: the templates resolved on their own ========== *)
\* number of resolutions with the same arguments
MaxResolutions == 2

\* scaffoldReduxStore: store, counter slice and thunks; types and hooks for ts
scaffoldReduxStore(f, language, framework) ==
  LET ext == IF language = "ts" THEN "ts" ELSE "js"
      isTypeScript == language = "ts"
      dir == storeDir(framework)
      featuresDir == dir \o <<"features", "counter">>
      typesDir == dir \o <<"types">>
      f1 == CreateFolder(f, dir)
      f2 == WriteFile(f1, dir \o <<FileName("store", ext)>>,
                      IF isTypeScript THEN Text("store ts") ELSE Text("store js"))
      f3 == CreateFolder(CreateFolder(f2, featuresDir), typesDir)
      f4 == WriteFile(f3, featuresDir \o <<FileName("counterSlice", ext)>>,
                      IF isTypeScript THEN Text("counterSlice ts")
                      ELSE Text("counterSlice js"))
      f5 == WriteFile(f4, featuresDir \o <<FileName("counterThunks", ext)>>,
                      IF isTypeScript THEN Text("counterThunks ts")
                      ELSE Text("counterThunks js"))
  IN IF isTypeScript
     THEN WriteFile(WriteFile(f5, typesDir \o <<"counter.types.ts">>,
                              Text("counter types")),
                    dir \o <<"hooks.ts">>, Text("counter hooks"))
     ELSE f5

\* the authStorage argument: a storage kind, undefined or null
StorageArgs == StorageKinds \cup {Undefined, "null"}

InitTemplates ==
  /\ ClientOff
  /\ answers \in {[NoAnswers EXCEPT !.framework = fw, !.language = l,
                                    !.auth = TRUE, !.authStorage = s] :
                    fw \in Frameworks, l \in Languages, s \in StorageArgs}
  /\ pc = "templates"
  /\ cwd = "launch"
  /\ fs \in {Overlay(Root :> Dir, g) :
               g \in Maybe(GitignorePath, {NextGitignore, Lines(<<"node_modules">>)})}
  /\ installed = {}
  /\ git = "none"
  /\ trace = <<>>
  /\ warned = FALSE
  /\ failedAt = ""
  /\ envLog = <<>>

\* setupEnvFiles, scaffoldReduxStore and scaffoldApiService applied to the
\* project directory as it was; envLog keeps what each resolution produced
ResolveTemplates ==
  /\ pc = "templates"
  /\ Len(envLog) < MaxResolutions
  /\ \E secret \in Secrets :
       LET e == setupEnvFiles(fs, answers.framework, secret, "none").fs
           r == scaffoldReduxStore(e, answers.language, answers.framework)
           a == scaffoldApiService(r, answers.language, answers.authStorage,
                                   answers.framework)
       IN envLog' = Append(envLog, a)
  /\ UNCHANGED <<answers, pc, cwd, fs, installed, git, trace, warned, failedAt>>
  /\ UNCHANGED clientVars

NextTemplates == ResolveTemplates

SpecTemplates == InitTemplates /\ [][NextTemplates]_vars

(* ===================== Part I: properties of the client =============== *)
Others(c) == Calls \ {c}
Just(c, replies) == call[c].replies # replies /\ call'[c].replies = replies
RefreshAttempted(c) == call'[c].pc \in {"awaitRefresh", "refreshRejected"}

RefreshedAndRetried ==
  <<Reply("request", 401), Reply("refresh", 200), Reply("request", 200)>>

\* C1: when a call is answered 401, its refresh succeeds and its retry
\* succeeds, the call has made exactly one refresh call and sent the request
\* exactly twice, it resolves with the retry's data and leaves
\* hasTriedRefresh false; and a 401 answering a call that runs alone, with
\* the indicator the client checks present, always starts a refresh attempt.
C1_RefreshOnceRetryOnce ==
  [][\A c \in Calls :
       /\ Just(c, RefreshedAndRetried) =>
            /\ call'[c].refreshes = 1
            /\ call'[c].requests = 2
            /\ call'[c].pc = "done"
            /\ call'[c].result = Resolved(RetryData)
            /\ hasTriedRefresh' = FALSE
       /\ ( /\ call[c].pc = "awaitRequest"
            /\ \A d \in Others(c) : ~InProgress(d)
            /\ HasRefreshToken
            /\ call'[c].replies # <<>>
            /\ call'[c].replies[1] = Reply("request", 401) )
          => RefreshAttempted(c)]_vars

\* a call has refreshed and retried successfully, and a later call is in
\* its own refresh
C1_Witness ==
  \E c \in Calls : \E d \in Others(c) :
    /\ call[c].pc = "done"
    /\ call[c].replies = RefreshedAndRetried
    /\ call[d].pc = "awaitRefresh"
    /\ hasTriedRefresh

RefreshFailedReplies ==
  {<<Reply("request", 401), Reply("refresh", st)>> : st \in {Failed, NotSent}}
RetryUnauthorized ==
  <<Reply("request", 401), Reply("refresh", 200), Reply("request", 401)>>

\* C2: a call answered 401 whose refresh then fails, or whose retry is
\* answered 401 again, ends at once: the location is the login route, the
\* call rejects with the session-expired message, and it has sent at most
\* one refresh call and no request beyond the one it was retrying.
C2_SessionExpired ==
  [][\A c \in Calls :
       /\ (call[c].pc # "done" /\ call'[c].pc = "done"
             /\ call'[c].replies \in RefreshFailedReplies)
          => /\ location' = LOGIN
             /\ call'[c].result = Rejected(SessionExpired)
             /\ call'[c].requests = 1
             /\ call'[c].refreshes <= 1
       /\ Just(c, RetryUnauthorized)
          => /\ location' = LOGIN
             /\ call'[c].pc = "done"
             /\ call'[c].result = Rejected(SessionExpired)
             /\ call'[c].requests = 2
             /\ call'[c].refreshes = 1]_vars

\* both endings have happened: a failed refresh and a second 401
C2_Witness ==
  \E c \in Calls : \E d \in Others(c) :
    /\ call[c].pc = "done" /\ call[c].replies \in RefreshFailedReplies
    /\ call[d].pc = "done" /\ call[d].replies = RetryUnauthorized
    /\ location = LOGIN

\* C3: whatever the server answers, an invocation never sends its request
\* more than twice nor calls the refresh endpoint more than once, and once
\* started it terminates.
C3_BoundedAndTerminates ==
  /\ [](\A c \in Calls : call[c].requests <= 2 /\ call[c].refreshes <= 1)
  /\ \A c \in Calls : InProgress(c) ~> (call[c].pc = "done")

\* an invocation has ended after two requests and one refresh call
C3_Witness ==
  \E c \in Calls :
    call[c].pc = "done" /\ call[c].requests = 2 /\ call[c].refreshes = 1

\* C4: hasTriedRefresh is false whenever no api() call is in progress.
C4_FlagFalseWhenIdle ==
  (\A c \in Calls : ~InProgress(c)) => hasTriedRefresh = FALSE

\* all calls have ended, one of them by a 401 that found the flag set by
\* the other, which went through a refresh
C4_Witness ==
  \E c \in Calls : \E d \in Others(c) :
    /\ \A e \in Calls : call[e].pc = "done"
    /\ HasRefreshToken
    /\ call[c].replies = <<Reply("request", 401)>>
    /\ Len(call[d].replies) >= 2

\* C5 (as claimed): in the localStorage variant a 401 received with
\* hasTriedRefresh false starts a refresh attempt exactly when a refresh
\* token is stored, whatever document.cookie holds.
C5_RefreshIffStoredToken ==
  [][\A c \in Calls :
       ( /\ storage = "localStorage"
         /\ call[c].pc = "awaitRequest"
         /\ ~hasTriedRefresh
         /\ call'[c].replies # <<>>
         /\ call'[c].replies[1] = Reply("request", 401) )
       => (RefreshAttempted(c) <=> GetRefreshToken # NoToken)]_vars

(* ================== Part II: properties of the scaffolder ============= *)
IsPrefix(a, b) == Len(a) <= Len(b) /\ SubSeq(b, 1, Len(a)) = a

\* the step order of the claim, for given answers
ExpectedSteps(a) ==
  <<"root", "generator", "postprocess", "folders", "env", "jsconfig">> \o
  (IF a.auth THEN <<"auth">> ELSE <<>>) \o
  (IF a.uiLibrary # "none" THEN <<"ui">> ELSE <<>>) \o
  <<"foldersAgain", "readme", "gitInit", "gitAdd", "gitCommit">>

\* C6: the steps complete one after the other in the fixed order: at every
\* moment the completed steps are an initial part of the order (auth only
\* with auth, ui only with a UI library), and a completed run has done all
\* of them.
C6_FixedStepOrder ==
  /\ IsPrefix(trace, ExpectedSteps(answers))
  /\ pc = "done" => trace = ExpectedSteps(answers)

\* a completed run that had both optional steps
C6_Witness ==
  /\ pc = "done"
  /\ answers.auth
  /\ answers.uiLibrary = "shadcn"
  /\ Len(trace) = 13

\* the steps whose failure the claim is about
FatalSteps == {"root", "generator", "postprocess", "auth", "ui"}

KeepsFiles(f, g) == \A q \in DOMAIN f : q \in DOMAIN g /\ g[q] = f[q]

\* C7: when the root creation, the generator or a dependency install fails,
\* the run is aborted in that very step: the step is the one after the last
\* completed step, it is not recorded completed, no file that existed is
\* removed or changed, and no step is ever taken after a failure.
C7_FatalStepAborts ==
  [][/\ failedAt = ""
     /\ failedAt' \in FatalSteps
        => /\ pc' = "failed"
           /\ trace' = trace
           /\ IsPrefix(Append(trace, failedAt'), ExpectedSteps(answers))
           /\ KeepsFiles(fs, fs')
           /\ installed' = installed
           /\ git' = "none"]_vars

\* the install of the auth block failed after files had been written
C7_Witness ==
  /\ pc = "failed"
  /\ failedAt = "auth"
  /\ Exists(fs, EnvPath)
  /\ ~Exists(fs, ReadmePath)

\* C8: the environment step never aborts the run: whether or not it threw,
\* the jsconfig step follows, and a run that warned about it and completed
\* has done every later step.
C8_EnvFailureIsNotFatal ==
  [][/\ pc = "env" => (pc' = "jsconfig" /\ failedAt' = "")
     /\ (pc' = "done" /\ warned')
        => /\ trace' = ExpectedSteps(answers)
           /\ Exists(fs', ReadmePath)
           /\ git' = "committed"]_vars

\* a run whose environment setup threw before writing .env has completed
C8_Witness ==
  /\ pc = "done"
  /\ warned
  /\ ~Exists(fs, EnvPath)
  /\ Exists(fs, ReadmePath)
  /\ answers.auth
  /\ Exists(fs, servicesDir(answers.framework))

\* C9 (as claimed): a completed run has written the Redux templates when
\* redux = true, and none of them when redux = false.
C9_ReduxTemplatesWritten ==
  pc = "done" =>
    IF answers.redux
    THEN ReduxTemplatePaths(answers.language, answers.framework) \subseteq DOMAIN fs
    ELSE ReduxTemplatePaths(answers.language, answers.framework) \cap DOMAIN fs = {}

\* C10: setupEnvFiles never changes an .env that exists, and a run that
\* follows a run which left an .env leaves the same .env.
C10_EnvNeverOverwritten ==
  [][/\ Exists(fs, EnvPath)
        => (Exists(fs', EnvPath) /\ fs'[EnvPath] = fs[EnvPath])
     /\ \A i \in 2..Len(envLog') :
          DOMAIN envLog'[i - 1] # {} => envLog'[i] = envLog'[i - 1]]_vars

\* setupEnvFiles ran twice on a project without .env; the file of the first
\* run is still there
C10_Witness ==
  /\ Len(envLog) >= 2
  /\ DOMAIN envLog[1] # {}
  /\ envLog[1][EnvPath] # UserEnv
  /\ fs[EnvPath] = envLog[1][EnvPath]

\* the entries the claim wants in .gitignore
EnvExclusions == {".env", ".env.local", ".env.*.local"}

ListsEnvExclusions(f) ==
  /\ Exists(f, GitignorePath)
  /\ \A e \in EnvExclusions :
       \E i \in 1..Len(f[GitignorePath].lines) : f[GitignorePath].lines[i] = e

\* C11 (as claimed): whatever .gitignore was there before, after a call of
\* setupEnvFiles that completed .gitignore lists .env, .env.local and
\* .env.*.local.
C11_GitignoreExcludesEnv ==
  [][\A secret \in Secrets :
       ( /\ pc = "envOnly"
         /\ fs' = setupEnvFiles(fs, answers.framework, secret, "none").fs )
       => ListsEnvExclusions(fs')]_vars

\* C12 (as claimed): a call of setupEnvFiles that completed on a project
\* with neither .env nor .env.example leaves both files.
C12_EnvAndExampleExist ==
  [][\A secret \in Secrets :
       ( /\ pc = "envOnly"
         /\ ~Exists(fs, EnvPath)
         /\ ~Exists(fs, EnvExamplePath)
         /\ fs' = setupEnvFiles(fs, answers.framework, secret, "none").fs )
       => (Exists(fs', EnvPath) /\ Exists(fs', EnvExamplePath))]_vars

\* the folder plans of the claim
NextPlan ==
  << <<"public">>, <<"components">>, <<"hooks">>, <<"lib">>, <<"styles">>,
     <<"types">>, <<"services">> >>

ReactPlan ==
  << <<"public">>, <<"src", "components">>, <<"src", "hooks">>,
     <<"src", "layouts">>, <<"src", "services">>, <<"src", "styles">>,
     <<"src", "utils">>, <<"src", "pages">>, <<"src", "routes">> >>

ClaimedPlan(framework) == IF framework = "next" THEN NextPlan ELSE ReactPlan

\* C13: whatever the other answers are, each of the two createFolders steps
\* works through exactly the plan of the framework, in its order: every
\* folder of the plan exists afterwards, nothing outside the plan (no pages,
\* no app for next) is created, and nothing that existed is touched.
C13_FolderPlan ==
  [][( \/ pc = "folders" /\ pc' = "env"
       \/ pc = "foldersAgain" /\ pc' = "readme" )
     => LET plan == ClaimedPlan(answers.framework)
        IN /\ Folders(answers.framework) = plan
           /\ \A i \in 1..Len(plan) : Exists(fs', plan[i])
           /\ \A q \in DOMAIN fs' \ DOMAIN fs :
                /\ fs'[q] = Dir
                /\ \E i \in 1..Len(plan) : q \in Prefixes(plan[i])
           /\ KeepsFiles(fs, fs')]_vars

\* the layout of a react project has been created
C13_Witness ==
  /\ pc = "env"
  /\ answers.framework = "react"
  /\ answers.auth
  /\ \A i \in 1..Len(ReactPlan) : Exists(fs, ReactPlan[i]) /\ fs[ReactPlan[i]] = Dir

\* the client, routes and endpoints files of scaffoldApiService
AuthTemplatePaths(language, framework) ==
  LET ext == IF language = "ts" THEN "ts" ELSE "js"
  IN {servicesDir(framework) \o <<FileName(base, ext)>> :
        base \in {"apiClient", "Routes", "apiEndpoints"}}

\* C14 (as claimed): with no storage mode selected (authStorage undefined or
\* null) scaffoldApiService writes none of the client, routes and endpoints
\* files.
C14_NoStorageNoAuthFiles ==
  \A i \in 1..Len(envLog) :
    (pc = "templates" /\ answers.authStorage \notin StorageKinds)
    => AuthTemplatePaths(answers.language, answers.framework)
         \cap DOMAIN envLog[i] = {}

AuthFileNames ==
  {FileName(base, ext) : base \in {"apiClient", "Routes", "apiEndpoints"},
                         ext \in {"ts", "js"}}

\* C15: with auth = false, whatever the other answers are, at no moment of
\* the run is axios or js-cookie installed, is the auth step recorded, or is
\* there a client, routes or endpoints file anywhere in the project.
C15_NoAuthNoAuthFiles ==
  (pc # "envOnly" /\ pc # "templates" /\ ~answers.auth)
  => /\ installed \cap {"axios", "js-cookie"} = {}
     /\ \A i \in 1..Len(trace) : trace[i] # "auth"
     /\ \A q \in DOMAIN fs : q # Root => q[Len(q)] \notin AuthFileNames

\* a react/js run without auth, with a UI library, has completed
C15_Witness ==
  /\ pc = "done"
  /\ ~answers.auth
  /\ answers.framework = "react"
  /\ answers.language = "js"
  /\ answers.uiLibrary = "antd"
  /\ "antd" \in installed
  /\ Exists(fs, <<"src", "routes">>)

\* the names that start with VITE_ and with NEXT_PUBLIC_
ViteNames == {"VITE_API_URL", "VITE_SOCKET_URL", "VITE_AUTH_SECRET"}
NextPublicNames == {"NEXT_PUBLIC_API_URL", "NEXT_PUBLIC_SOCKET_URL"}

\* the environment variables a generated file names or reads
EnvNames(content) ==
  IF content.kind = "env"
  THEN {content.lines[i][1] : i \in 1..Len(content.lines)}
  ELSE IF content.kind = "apiClient"
  THEN {content.baseUrlVar, content.refreshUrlVar} \ {"none"}
  ELSE {}

\* the variables holding the API and the socket URL
UrlNames(content) ==
  IF content.kind = "env"
  THEN {content.lines[1][1], content.lines[2][1]}
  ELSE EnvNames(content)

\* C16 (as claimed): in a react project every variable of the generated .env
\* and of the generated client (base URL, refresh URL) is a VITE_ name
\* (NODE_ENV, which no framework prefixes, aside) and none is a NEXT_PUBLIC_
\* name; in a next project the API and socket URL variables are NEXT_PUBLIC_
\* names.
C16_NamingFollowsFramework ==
  (pc # "envOnly" /\ pc # "templates") =>
    \A q \in DOMAIN fs :
      /\ answers.framework = "react"
         => /\ EnvNames(fs[q]) \ {"NODE_ENV"} \subseteq ViteNames
            /\ EnvNames(fs[q]) \cap NextPublicNames = {}
      /\ answers.framework = "next"
         => UrlNames(fs[q]) \subseteq NextPublicNames

\* C17 (as claimed): two resolutions with the same arguments produce the
\* same content for every file, the environment file included.
C17_ResolutionDeterministic ==
  pc = "templates" =>
    \A i, j \in 1..Len(envLog) : envLog[i] = envLog[j]

\* two environment files that differ at most in the value of the auth secret
SameButSecret(e1, e2, framework) ==
  /\ e1.kind = e2.kind
  /\ Len(e1.lines) = Len(e2.lines)
  /\ \A k \in 1..Len(e1.lines) :
       /\ e1.lines[k][1] = e2.lines[k][1]
       /\ e1.lines[k][1] # authSecretVar(framework) => e1.lines[k] = e2.lines[k]

\* C17 (amended): two resolutions with the same arguments produce the same
\* files, with the same content for every file but .env, and the two .env
\* files differ at most in the value of the auth secret.
C17_DeterministicButSecret ==
  pc = "templates" =>
    \A i, j \in 1..Len(envLog) :
      /\ DOMAIN envLog[i] = DOMAIN envLog[j]
      /\ \A q \in DOMAIN envLog[i] :
           IF q = EnvPath
           THEN SameButSecret(envLog[i][q], envLog[j][q], answers.framework)
           ELSE envLog[i][q] = envLog[j][q]

\* two resolutions whose .env files differ, with a client file generated
C17_Witness ==
  /\ pc = "templates"
  /\ Len(envLog) = 2
  /\ envLog[1][EnvPath] # envLog[2][EnvPath]
  /\ answers.authStorage = "cookie"
  /\ \E q \in DOMAIN envLog[2] : envLog[2][q].kind = "apiClient"

\* the pinned entries of a section of package.json
Pinned(n) ==
  CASE n = "dependencies" -> PinnedDependencies
    [] n = "devDependencies" -> PinnedDevDependencies
    [] n = "scripts" -> PinnedScripts

\* m2 is m with the pinned entries merged in
MergedInto(m, m2) ==
  /\ m2.kind = m.kind
  /\ m2.other = m.other
  /\ \A n \in DOMAIN m.sections \ {"dependencies", "devDependencies", "scripts"} :
       n \in DOMAIN m2.sections /\ m2.sections[n] = m.sections[n]
  /\ DOMAIN m2.sections
       = DOMAIN m.sections \cup {"dependencies", "devDependencies", "scripts"}
  /\ \A n \in {"dependencies", "devDependencies", "scripts"} :
       /\ DOMAIN m2.sections[n] = DOMAIN Section(m, n) \cup DOMAIN Pinned(n)
       /\ \A k \in DOMAIN Pinned(n) : m2.sections[n][k] = Pinned(n)[k]
       /\ \A k \in DOMAIN Section(m, n) \ DOMAIN Pinned(n) :
            m2.sections[n][k] = m.sections[n][k]

\* C18: the post-processing step of a next project keeps every entry of the
\* generator's package.json whose key is not pinned, gives every pinned key
\* its pinned value, leaves the other fields and every other file alone, and
\* writes nothing when there is no package.json.
C18_ManifestMerged ==
  [][(pc = "postprocess" /\ answers.framework = "next" /\ pc' # pc)
     => IF Exists(fs, PackageJsonPath)
        THEN /\ DOMAIN fs' = DOMAIN fs
             /\ MergedInto(fs[PackageJsonPath], fs'[PackageJsonPath])
             /\ \A q \in DOMAIN fs \ {PackageJsonPath} : fs'[q] = fs[q]
        ELSE fs' = fs]_vars

\* the merged manifest kept the generator's test script and @types/jest
C18_Witness ==
  /\ pc = "folders"
  /\ answers.framework = "next"
  /\ Exists(fs, PackageJsonPath)
  /\ fs[PackageJsonPath].sections["scripts"]["test"] = "jest"
  /\ fs[PackageJsonPath].sections["scripts"]["dev"] = "next dev --turbo"
  /\ fs[PackageJsonPath].sections["devDependencies"]["@types/jest"] = "^29"
  /\ fs[PackageJsonPath].sections["dependencies"]["react"] = "^18.2.0"

\* C19: once the prompts have completed, routing is defined exactly when the
\* framework is next and authStorage is defined exactly when auth is true.
C19_AnswersWellFormed ==
  (pc \notin {"prompt", "envOnly", "templates"})
  => /\ (answers.routing # Undefined) <=> (answers.framework = "next")
     /\ (answers.authStorage # Undefined) <=> answers.auth

\* the prompts completed for react with auth: no routing, a storage kind
C19_Witness ==
  /\ pc = "root"
  /\ answers.framework = "react"
  /\ answers.routing = Undefined
  /\ answers.auth
  /\ answers.authStorage = "cookie"

\* the last value handed to setLocalData
LastLocalData(events) ==
  LET sets == SelectSeq(events, LAMBDA e : e.op = "setLocalData")
  IN sets[Len(sets)].arg

\* C20: optimisticUpdate hands the proposed state to setLocalData before the
\* put is issued and nothing else while the write is pending; when the write
\* has failed, for whatever reason, the last value handed to setLocalData is
\* the previous state; when it has succeeded it is still the proposed state.
C20_OptimisticRollback ==
  [][\A c \in Calls :
       LET o == optimistic'[c]
       IN /\ o.pc # "none"
             => /\ o.events[1] = SetLocalData(UpdatedFields)
                /\ o.events[2] = Put(UpdatedFields)
          /\ o.pc = "awaitApi" => Len(o.events) = 2
          /\ (optimistic[c].pc = "awaitApi" /\ o.pc = "returned")
             => /\ call[c].pc = "done"
                /\ IF call[c].result.kind = "rejected"
                   THEN LastLocalData(o.events) = CurrentFields
                   ELSE /\ call[c].result.kind = "resolved"
                        /\ o.events = optimistic[c].events
                        /\ LastLocalData(o.events) = UpdatedFields]_vars

\* an optimistic update whose write ended in session expiry was rolled back
C20_Witness ==
  \E c \in Calls :
    /\ optimistic[c].pc = "returned"
    /\ call[c].result = Rejected(SessionExpired)
    /\ location = LOGIN
    /\ optimistic[c].events = <<SetLocalData(UpdatedFields), Put(UpdatedFields),
                                SetLocalData(CurrentFields)>>

(* ================ Part I: more properties of the client =============== *)
\* C21 (as claimed): a call that failed is rejected with a message that is a
\* string, one of: the session-expired message, the server's message, the
\* unknown-error message, the message of the default error.
C21_RejectionCarriesString ==
  \A c \in Calls :
    call[c].result.kind = "rejected"
    => /\ TypeOf(call[c].result.value) = "string"
       /\ call[c].result.value
            \in {SessionExpired, ServerMessage, UnknownApiError, DefaultError}

\* call c sends a request of api() in the step: the first or the retried
Sends(c) ==
  /\ call'[c].pc \in {"awaitRequest", "awaitRetry"}
  /\ call'[c].pc # call[c].pc

\* C25: with the cookie template no step touches the stored tokens and every
\* request goes out with credentials and without a token header; with the
\* localStorage template every request sent while an access token is stored
\* bears that token, and a retry sent after a refresh that stored a token
\* bears the token stored by the refresh.
C25_TokenStrategy ==
  [][\A c \in Calls :
       /\ storage = "cookie"
          => /\ localStorage' = localStorage
             /\ Sends(c) => /\ call'[c].sent.withCredentials
                            /\ call'[c].sent.authorization = NoToken
       /\ (storage = "localStorage" /\ Sends(c)
             /\ hasWindow /\ localStorage.accessToken # NoToken)
          => call'[c].sent.authorization = localStorage.accessToken
       /\ (storage = "localStorage" /\ call[c].pc = "awaitRefresh"
             /\ call'[c].pc = "refreshResolved" /\ hasWindow
             /\ localStorage'.accessToken # localStorage.accessToken)
          => localStorage'.accessToken = IssuedToken]_vars

\* a retry is out that bears the token the refresh stored, after a first
\* request that bore the token stored before
C25_Witness ==
  \E c \in Calls :
    /\ storage = "localStorage"
    /\ call[c].pc = "awaitRetry"
    /\ call[c].sent.authorization = IssuedToken
    /\ localStorage.accessToken = IssuedToken

\* C27 (as claimed): at no moment are two refresh calls awaiting their
\* answer.
C27_OneRefreshInFlight ==
  Cardinality({c \in Calls : call[c].pc = "awaitRefresh"}) <= 1

\* the first request of call c is answered with 401 in the step
Gets401(c) ==
  /\ call[c].pc = "awaitRequest"
  /\ call'[c].pc # "awaitRequest"
  /\ call'[c].replies # <<>>
  /\ call'[c].replies[1] = Reply("request", 401)

\* C28 (as claimed): a call whose request is answered with 401 while the
\* refresh indicator is present goes into a refresh of its own, whatever the
\* other calls are doing; it does not end there with the generic error.
C28_RefreshOnEvery401 ==
  [][\A c \in Calls :
       (Gets401(c) /\ HasRefreshToken)
       => /\ call'[c].pc \in {"awaitRefresh", "refreshRejected"}
          /\ call'[c].result = Pending]_vars

\* call c ends in the step, rejected with the session-expired error after
\* the redirect to the login route
EndsExpired(c) ==
  /\ call[c].pc # "done"
  /\ call'[c].pc = "done"
  /\ call'[c].result = Rejected(SessionExpired)
  /\ hasWindow
  /\ location' = LOGIN

\* C29 (as claimed): in the localStorage template, when a call ends with the
\* redirect to the login route and the session-expired error, neither an
\* access token nor a refresh token is left in the storage.
C29_ExpiredSessionClearsTokens ==
  [][\A c \in Calls :
       (storage = "localStorage" /\ EndsExpired(c))
       => /\ localStorage'.accessToken = NoToken
          /\ localStorage'.refreshToken = NoToken]_vars

\* the status of the answer that ends call c in the step
LastStatus(c) == call'[c].replies[Len(call'[c].replies)].status

\* C30 (as claimed): a retry that fails after a successful refresh leads to
\* the login route and the session-expired error only if it was answered
\* with 401; with any other failure the call is rejected with the message of
\* that failure, or with the default error when there was no response, and
\* the location stays.
C30_RedirectOnlyOn401 ==
  [][\A c \in Calls :
       (call[c].pc = "awaitRetry" /\ call'[c].pc = "done"
          /\ LastStatus(c) \notin {200, 401})
       => /\ call'[c].result.kind = "rejected"
          /\ call'[c].result.value # SessionExpired
          /\ location' = location]_vars

(* ============== Part II: more properties of the scaffolder ============ *)
\* C22: of two completed runs in the same environment whose answers differ
\* in uiLibrary only, the second leaves exactly the files and directories,
\* with exactly the content, that the first left; and the UI step of a run
\* writes nothing.
C22_UiLibraryOnlyInstalls ==
  [][/\ (pc' = "done" /\ Len(envLog') = 2)
        => /\ answers'.uiLibrary # envLog'[2].uiLibrary
           /\ fs' = envLog'[2].fs
     /\ pc = "ui" => fs' = fs]_vars

\* a run without UI library and a run with shadcn, with auth templates, have
\* both completed; they differ in what was installed
C22_Witness ==
  /\ pc = "done"
  /\ Len(envLog) = 2
  /\ envLog[2].uiLibrary = "none"
  /\ answers.uiLibrary = "shadcn"
  /\ answers.auth
  /\ installed # envLog[2].installed
  /\ Exists(fs, EnvPath)
  /\ Exists(fs, PackageJsonPath)

\* C23: the second application of the folder layout (step 9) succeeds and
\* leaves the filesystem exactly as it found it: every folder of the layout
\* is still there from the first application, and the files written into
\* the folders in between are kept.
C23_LayoutIdempotent ==
  [][pc = "foldersAgain"
       => /\ pc' = "readme"
          /\ fs' = fs
          /\ \A i \in 1..Len(Folders(answers.framework)) :
               Exists(fs, Folders(answers.framework)[i])]_vars

\* the second pass is over, and the client files written after the first
\* pass are in a folder of the layout
C23_Witness ==
  /\ pc = "readme"
  /\ trace # <<>>
  /\ trace[Len(trace)] = "foldersAgain"
  /\ \E i \in 1..Len(Folders(answers.framework)) :
       \E p \in DOMAIN fs :
         /\ Len(p) > Len(Folders(answers.framework)[i])
         /\ IsPrefix(Folders(answers.framework)[i], p)
         /\ fs[p].kind = "apiClient"

\* the prompts were cancelled: the last question, which is always asked, has
\* no answer
Cancelled == pc # "prompt" /\ answers.uiLibrary = Undefined

\* C24 (as claimed): after a cancelled prompt sequence the program ends
\* without failure and no scaffolding step runs: no directory is created, no
\* external command is invoked.
C24_CancelStopsRun ==
  (pc \notin {"envOnly", "templates"} /\ Cancelled)
  => /\ pc = "root"
     /\ fs \in {<<>>, Root :> Dir}
     /\ trace = <<>>
     /\ installed = {}
     /\ git = "none"

\* C26 (as claimed): when a write of the auth/API templates has thrown, the
\* run is over: no UI library is installed, the folder layout is not applied
\* again, no README is written and git is not started.
C26_TemplateFailureAborts ==
  failedAt = UnhandledRejection
  => /\ pc \in {"ui", "foldersAgain", "failed"}
     /\ trace[Len(trace)] = "auth"
     /\ installed \cap UiPackages(answers.uiLibrary) = {}
     /\ ~Exists(fs, ReadmePath)
     /\ git = "none"

====
